---- MODULE Spec2Model ----
(***************************************************************************)
(* Model of backend/scene_generator.py (class SceneGenerator).             *)
(*                                                                         *)
(* A scene is identified by its position 1..NumScenes in the list of       *)
(* transcriptions given to __init__ (the dict of line 49 keeps insertion   *)
(* order).  generate_all_scenes creates two asyncio tasks per scene        *)
(* (generate_manim, generate_speech), awaits them with asyncio.gather,     *)
(* reconciles every scene in input order and assembles the final video.    *)
(*                                                                         *)
(* asyncio is single threaded: a task is suspended only at an await.       *)
(* render_scene calls subprocess.run synchronously, so while one scene is  *)
(* rendering no other task and not the orchestrator can take a step.       *)
(*                                                                         *)
(* Durations are floating point numbers in the source.  They are modelled  *)
(* as a binary floating point format with FloatPrecision significant bits  *)
(* (round to nearest, ties to even) over non-negative integers.            *)
(***************************************************************************)
EXTENDS Integers, Sequences, FiniteSets, TLC

\* ---------------------------------------------------------------- bounds
NumScenes == 2
FloatPrecision == 3
MaxDuration == 20
MaxTranscriptions == 3
NumTexts == 2

\* ------------------------------------------------------ program constants
MAX_ITERATIONS == 5

Scenes == 1..NumScenes

VARIABLES
    transcriptions,       \* the list given to SceneGenerator(...)
    scene_transcriptions, \* self.scene_transcriptions: <<key, text>> entries
    video_id,             \* self.video_id (0 before __init__)
    orchPc,        \* position of generate_all_scenes
    reconIdx,      \* index of the for loop of lines 265-269
    returnValue,   \* what generate_all_scenes returned
    manimPc,       \* position of each generate_manim task
    iteration,     \* local variable iteration of generate_manim
    requests,      \* language-model requests issued by each generate_manim
    renders,       \* render_scene calls made by each generate_manim
    lastRender,    \* render_output[0] of the latest render_scene call
    manimResult,   \* result of each generate_manim task
    speechPc,      \* position of each generate_speech task
    speechResult,  \* result of each generate_speech task
    outOfOrder,    \* some generate_manim ended before that of an earlier scene
    codeFile,      \* video.py of each scene: 0 absent, k = text of request k
    codeText,      \* the content of video.py of each scene
    messages,      \* local variable messages of each generate_manim
    response,      \* content of the latest language-model response
    procStarts,    \* renderer processes started for each scene
    procResult,    \* how the latest renderer process of each scene ended
    render_output, \* local variable render_output of each generate_manim
    writeFailed,   \* the write of video.py raised (lines 147-149)
    llmTexts,      \* the texts the language-model service can answer
    renderFailures,\* the ways the renderer process can fail
    writeFailures, \* the ways the write of video.py can fail
    videoFile,     \* video.mp4 of each scene
    audioFile,     \* audio.wav of each scene: 0 absent, else its duration
    renderedDur,   \* duration of the clip the renderer produced
    reconStatus,   \* what the for loop of lines 265-269 did with each scene
    openClips,     \* clips combine_manim_and_speech opened and did not close
    finalVideo,    \* scenes whose clips were concatenated, in order
    finalFile,     \* final_video.mp4 exists
    assembleResult \* return value of combine_video_scenes

givenVars == <<transcriptions, scene_transcriptions, video_id>>
envVars == <<llmTexts, renderFailures, writeFailures>>

vars == <<transcriptions, scene_transcriptions, video_id, orchPc, reconIdx, returnValue, manimPc, iteration, requests, renders,
          lastRender, manimResult, speechPc, speechResult, outOfOrder, codeFile,
          videoFile, audioFile, renderedDur, reconStatus, openClips,
          finalVideo, finalFile, assembleResult, codeText, messages, response,
          procStarts, procResult, render_output, writeFailed, llmTexts,
          renderFailures, writeFailures>>

orchVars == <<orchPc, reconIdx, returnValue>>
manimVars == <<manimPc, iteration, requests, renders, lastRender, manimResult,
               outOfOrder, codeFile, renderedDur, codeText, messages, response,
               procStarts, procResult, render_output, writeFailed>>
speechVars == <<speechPc, speechResult, audioFile>>
reconVars == <<reconStatus, openClips>>
finalVars == <<finalVideo, finalFile, assembleResult>>

\* ------------------------------------------------------------- arithmetic
Min(a, b) == IF a < b THEN a ELSE b
Max(a, b) == IF a > b THEN a ELSE b

RECURSIVE Pow2(_)
Pow2(n) == IF n = 0 THEN 1 ELSE 2 * Pow2(n - 1)

RECURSIVE Exponent(_, _)
\* least e with x < 2^(FloatPrecision + e)
Exponent(x, e) == IF x < Pow2(FloatPrecision + e) THEN e ELSE Exponent(x, e + 1)

\* the float nearest to the real number x (ties to even)
RoundF(x) ==
    LET e == Exponent(x, 0)
        u == Pow2(e)
        q == x \div u
        r == x % u
    IN  IF e = 0 THEN x
        ELSE IF 2 * r > u \/ (2 * r = u /\ q % 2 = 1) THEN (q + 1) * u
        ELSE q * u

FAdd(x, y) == RoundF(x + y)
FSub(x, y) == RoundF(x - y)

\* durations a media file can have: the floats of 1..MaxDuration
Durations == {d \in 1..MaxDuration : RoundF(d) = d}

\* durations of the clips the renderer produces in a full run
SceneDurations == {d \in Durations : d = 1 \/ d = MaxDuration \div 2}

\* duration of the audio the speech service produces in a full run
SpeechDurations == {d \in Durations : d = MaxDuration \div 2}

NoFile == [video |-> 0, audio |-> 0]

\* faulty variant: the scenes are iterated in another order than supplied
SceneKeysReversed == [i \in 1..NumScenes |-> NumScenes + 1 - i]

\* iteration order of self.scene_transcriptions (insertion order of the dict)
SceneKeys == [i \in 1..NumScenes |-> i]

\* --------------------------------------------------------------- __init__
\* the transcription texts
Texts == 1..NumTexts

\* the values uuid.uuid4() can return; a value is never returned twice
Uuids == 1..(MaxTranscriptions + 1)

\* d[k] = v on a dict kept as the sequence of its <<key, value>> entries in
\* insertion order
DictSet(d, k, v) ==
    IF \E i \in 1..Len(d) : d[i][1] = k
    THEN [i \in 1..Len(d) |-> IF d[i][1] = k THEN <<k, v>> ELSE d[i]]
    ELSE Append(d, <<k, v>>)

\* d[k]
DictGet(d, k) == (CHOOSE e \in {d[i] : i \in 1..Len(d)} : e[1] = k)[2]

RECURSIVE DictOfPairs(_, _, _)
DictOfPairs(ks, vs, n) ==
    IF n = 0 THEN <<>> ELSE DictSet(DictOfPairs(ks, vs, n - 1), ks[n], vs[n])

\* faulty variant: the dict is keyed by the transcription text
SceneTranscriptionsByText(texts, uuids) ==
    DictOfPairs(texts, texts, Len(texts))

\* line 49: {uuid.uuid4(): scene_transcription for scene_transcription in
\* scene_transcriptions}; uuids[i] is the i-th value uuid4 returns
SceneTranscriptions(texts, uuids) ==
    DictOfPairs(uuids, texts, Len(texts))

GENERATIONS_PATH == "generated"
VIDEO_INTERNAL_PATH == "videos/video/480p15/video.mp4"

\* lines 52-53; a path is the tuple of the parts the f-string joins with "/"
get_scene_path(scene_id, vid) == <<GENERATIONS_PATH, vid, scene_id, VIDEO_INTERNAL_PATH>>

\* lines 55-56 and 97
get_audio_path(scene_id, vid) == <<GENERATIONS_PATH, vid, scene_id, "audio.wav">>

\* line 145
CodePath(scene_id, vid) == <<GENERATIONS_PATH, vid, scene_id, "video.py">>

\* lines 99-100 and 143-144: the working directory of a scene
SceneDir(scene_id, vid) == <<GENERATIONS_PATH, vid, scene_id>>

\* the transcriptions of a full run: the texts in turn
RunTranscriptions == [i \in 1..NumScenes |-> ((i - 1) % NumTexts) + 1]

\* lines 48-50: __init__ on a list of transcriptions
Construct ==
    /\ video_id = 0
    /\ \E uuids \in [1..(Len(transcriptions) + 1) -> Uuids] :
          /\ \A i, j \in DOMAIN uuids : i # j => uuids[i] # uuids[j]
          /\ scene_transcriptions' = SceneTranscriptions(transcriptions, uuids)
          /\ video_id' = uuids[Len(transcriptions) + 1]
    /\ UNCHANGED <<transcriptions, envVars, orchVars, manimVars, videoFile,
                   speechVars, reconVars, finalVars>>

\* ------------------------------------------------------------------ texts
\* the text of a response, of a file or of a diagnostic is the sequence of
\* its characters
Whitespace == {" ", "\n"}

RECURSIVE LStrip(_, _)
LStrip(text, chars) ==
    IF text # <<>> /\ Head(text) \in chars THEN LStrip(Tail(text), chars) ELSE text

RECURSIVE RStrip(_, _)
RStrip(text, chars) ==
    IF text # <<>> /\ text[Len(text)] \in chars
    THEN RStrip(SubSeq(text, 1, Len(text) - 1), chars)
    ELSE text

\* str.strip(chars): the leading and the trailing characters of chars go
StripChars(text, chars) == RStrip(LStrip(text, chars), chars)

\* the backtick character
Backtick == "backtick"

\* line 134: output.strip of three backticks
StripFence(output) == StripChars(output, {Backtick})

\* ------------------------------------------------------- the environment
\* responses of the language-model service: code alone, and code between
\* code-fence marks
LLMTexts ==
    {<<"a">>, <<"b">>, <<Backtick, Backtick, Backtick, "a", Backtick, Backtick, Backtick>>}

\* the response of the service in a full run
RunTexts == {<<Backtick, Backtick, Backtick, "a", Backtick, Backtick, Backtick>>}

\* the renderer process ended with exit code 0
RenderOk == [kind |-> "ok", returncode |-> 0, stderr |-> <<>>, text |-> <<>>]

\* the renderer process ended with a non-zero exit code (CalledProcessError
\* with returncode and stderr), or subprocess.run raised another exception
\* e, text being str(e)
RenderFailureKinds ==
    {[kind |-> "exit", returncode |-> 1, stderr |-> <<" ", "E", "\n">>, text |-> <<>>],
     [kind |-> "exception", returncode |-> 0, stderr |-> <<>>, text |-> <<"x">>],
     [kind |-> "exception", returncode |-> 0, stderr |-> <<>>, text |-> <<>>]}

\* the failure of the renderer in a full run
RunFailures ==
    {[kind |-> "exit", returncode |-> 1, stderr |-> <<" ", "E", "\n">>, text |-> <<>>]}

\* lines 143-146: the step of the write of video.py that raises
WriteFailureKinds == {"open", "write"}

\* the failure of the write in a full run
RunWriteFailures == {"open"}

SYSTEM_SCENE_PROMPT == "SYSTEM_SCENE_PROMPT"

\* render_output before the first render_scene call
NoOutput == <<"none", <<>>>>

TypeOK ==
    /\ transcriptions \in Seq(Texts)
    /\ scene_transcriptions \in Seq(Nat \X Texts)
    /\ video_id \in Nat
    /\ orchPc \in {"init", "gather", "reconcile", "returned", "raised"}
    /\ reconIdx \in 1..(NumScenes + 1)
    /\ returnValue \in {"none", "video_id"}
    /\ manimPc \in [Scenes -> {"idle", "awaitLLM", "rendering", "done", "raised"}]
    /\ iteration \in [Scenes -> 0..MAX_ITERATIONS]
    /\ requests \in [Scenes -> Nat]
    /\ renders \in [Scenes -> Nat]
    /\ lastRender \in [Scenes -> {"none", "True", "False"}]
    /\ manimResult \in [Scenes -> {"pending", "scene_id", "None", "raised"}]
    /\ speechPc \in [Scenes -> {"idle", "awaitSynth", "done", "raised"}]
    /\ speechResult \in [Scenes -> {"pending", "scene_id", "raised"}]
    /\ outOfOrder \in BOOLEAN
    /\ codeFile \in [Scenes -> Nat]
    /\ videoFile \in [Scenes -> [video : Nat, audio : Nat]]
    /\ audioFile \in [Scenes -> Nat]
    /\ renderedDur \in [Scenes -> Nat]
    /\ reconStatus \in [Scenes -> {"pending", "skipped", "muxed", "failed"}]
    /\ openClips \in [Scenes -> SUBSET {"video", "audio", "final_clip"}]
    /\ finalVideo \in Seq(Scenes)
    /\ finalFile \in BOOLEAN
    /\ assembleResult \in {"pending", "None", "path"}
    /\ \A s \in Scenes : codeText[s] \in Seq({"a", "b", Backtick})
    /\ \A s \in Scenes : Len(messages[s]) \in 0..(2 * MAX_ITERATIONS + 2)
    /\ \A s \in Scenes : response[s] \in llmTexts \cup {<<>>}
    /\ procStarts \in [Scenes -> Nat]
    /\ \A s \in Scenes : procResult[s] \in {RenderOk} \cup renderFailures
    /\ \A s \in Scenes : render_output[s][1] \in {"none", "True", "False"}
    /\ writeFailed \in [Scenes -> BOOLEAN]
    /\ llmTexts \subseteq LLMTexts
    /\ renderFailures \subseteq RenderFailureKinds
    /\ writeFailures \subseteq WriteFailureKinds

\* no task has been created and generate_all_scenes has not been called
TasksIdle ==
    /\ orchPc = "init"
    /\ reconIdx = 1
    /\ returnValue = "none"
    /\ manimPc = [s \in Scenes |-> "idle"]
    /\ iteration = [s \in Scenes |-> 0]
    /\ requests = [s \in Scenes |-> 0]
    /\ renders = [s \in Scenes |-> 0]
    /\ lastRender = [s \in Scenes |-> "none"]
    /\ manimResult = [s \in Scenes |-> "pending"]
    /\ speechPc = [s \in Scenes |-> "idle"]
    /\ speechResult = [s \in Scenes |-> "pending"]
    /\ outOfOrder = FALSE
    /\ codeFile = [s \in Scenes |-> 0]
    /\ codeText = [s \in Scenes |-> <<>>]
    /\ messages = [s \in Scenes |-> <<>>]
    /\ response = [s \in Scenes |-> <<>>]
    /\ procStarts = [s \in Scenes |-> 0]
    /\ procResult = [s \in Scenes |-> RenderOk]
    /\ render_output = [s \in Scenes |-> NoOutput]
    /\ writeFailed = [s \in Scenes |-> FALSE]
    /\ videoFile = [s \in Scenes |-> NoFile]
    /\ audioFile = [s \in Scenes |-> 0]
    /\ renderedDur = [s \in Scenes |-> 0]
    /\ reconStatus = [s \in Scenes |-> "pending"]
    /\ openClips = [s \in Scenes |-> {}]
    /\ finalVideo = <<>>
    /\ finalFile = FALSE
    /\ assembleResult = "pending"

\* a SceneGenerator built on the transcriptions of a full run
RunGiven ==
    /\ transcriptions = RunTranscriptions
    /\ scene_transcriptions = SceneTranscriptions(RunTranscriptions, SceneKeys)
    /\ video_id = NumScenes + 1

\* state after SceneGenerator(scene_transcriptions): nothing generated yet
Init ==
    /\ RunGiven
    /\ llmTexts = RunTexts
    /\ renderFailures = RunFailures
    /\ writeFailures = RunWriteFailures
    /\ TasksIdle

\* ------------------------------------------------------- the event loop
\* subprocess.run of render_scene blocks the only thread
LoopFree == \A s \in Scenes : manimPc[s] # "rendering"

\* tasks run while generate_all_scenes is suspended in await gather; when
\* gather raises, asyncio.run(main()) cancels the tasks that are left
TasksRun == orchPc = "gather" /\ LoopFree

\* --------------------------------------------------------- generate_manim
\* faulty variant: the loop test is off by one
LoopContinuesInclusive(it) == it <= MAX_ITERATIONS

\* line 123: while iteration < MAX_ITERATIONS
LoopContinues(it) == it < MAX_ITERATIONS

\* what subprocess.run of line 70 can do: the process ends with exit code
\* 0, or in one of the ways of renderFailures
RenderOutcomes == {RenderOk} \cup renderFailures

\* faulty variant: check=True is missing, a non-zero exit code is no error
render_sceneUnchecked(proc) ==
    CASE proc.kind \in {"ok", "exit"} -> <<"True", <<>>>>
      [] OTHER -> <<"False", proc.text>>

\* lines 68-86: render_scene as a function of how the renderer process
\* ended; the diagnostic of line 83 is the tuple of the parts of the
\* f-string
render_scene(proc) ==
    CASE proc.kind = "ok" -> <<"True", <<>>>>
      [] proc.kind = "exit" ->
            <<"False", <<"Command failed with exit code ", proc.returncode,
                         ". Error: ", StripChars(proc.stderr, Whitespace)>>>>
      [] OTHER -> <<"False", proc.text>>

\* faulty variant: the test reads render_output[1], the diagnostic text
RenderAcceptedByMessage(result) == result[2] # <<>>

\* line 156: if render_output[0]
RenderAccepted(result) == result[1] = "True"

\* lines 116-121: the history a generate_manim starts with
InitialMessages(s) ==
    << <<"system", SYSTEM_SCENE_PROMPT>>,
       <<"user", DictGet(scene_transcriptions, SceneKeys[s])>> >>

\* faulty variant: one list of messages is shared by all the scenes
AppendMessageShared(msgs, s, m) == [t \in Scenes |-> Append(msgs[t], m)]

\* lines 139 and 162: messages.append(m) in the generate_manim of s
AppendMessage(msgs, s, m) == [msgs EXCEPT ![s] = Append(@, m)]

\* faulty variant: video.py is opened in append mode
WrittenTextAppended(previous, output) == previous \o output

\* lines 145-146: open(..., "w") and f.write(output)
WrittenText(previous, output) == output

\* the generate_manim task of s ends while that of an earlier scene has not
EndsOutOfOrder(s) ==
    \E t \in Scenes : t < s /\ manimPc[t] \in {"awaitLLM", "rendering"}

\* lines 123-127 and 165-166: the loop test with iteration = it; either the
\* next request is sent (the task is suspended at the await) or the loop
\* is left and None is returned
LoopHead(s, it) ==
    /\ iteration' = [iteration EXCEPT ![s] = it]
    /\ IF LoopContinues(it)
       THEN /\ requests' = [requests EXCEPT ![s] = @ + 1]
            /\ manimPc' = [manimPc EXCEPT ![s] = "awaitLLM"]
            /\ UNCHANGED <<manimResult, outOfOrder>>
       ELSE /\ manimPc' = [manimPc EXCEPT ![s] = "done"]
            /\ manimResult' = [manimResult EXCEPT ![s] = "None"]
            /\ outOfOrder' = (outOfOrder \/ EndsOutOfOrder(s))
            /\ UNCHANGED requests

\* line 124 raising: the language-model request fails, the exception leaves
\* generate_manim
LLMError(s) ==
    /\ TasksRun
    /\ manimPc[s] = "awaitLLM"
    /\ manimPc' = [manimPc EXCEPT ![s] = "raised"]
    /\ manimResult' = [manimResult EXCEPT ![s] = "raised"]
    /\ outOfOrder' = (outOfOrder \/ EndsOutOfOrder(s))
    /\ UNCHANGED <<orchVars, iteration, requests, renders, lastRender,
                   codeFile, renderedDur, videoFile, speechVars, reconVars,
                   finalVars, codeText, messages, response, procStarts,
                   procResult, render_output, writeFailed>>
    /\ UNCHANGED <<givenVars, envVars>>

\* faulty variant: a failed write is retried with a new request
WriteFailsRetried(s) ==
    /\ writeFailed' = [writeFailed EXCEPT ![s] = TRUE]
    /\ LoopHead(s, iteration[s])
    /\ UNCHANGED <<codeFile, codeText, renders, procStarts>>

\* lines 147-149: makedirs or open raised ("open") or f.write raised after
\* open(..., "w") truncated video.py ("write"); None is returned
WriteFails(s) ==
    /\ writeFailed' = [writeFailed EXCEPT ![s] = TRUE]
    /\ \E how \in writeFailures :
          codeText' = [codeText EXCEPT ![s] = IF how = "write" THEN <<>> ELSE @]
    /\ manimPc' = [manimPc EXCEPT ![s] = "done"]
    /\ manimResult' = [manimResult EXCEPT ![s] = "None"]
    /\ outOfOrder' = (outOfOrder \/ EndsOutOfOrder(s))
    /\ UNCHANGED <<codeFile, renders, procStarts, iteration, requests>>

\* lines 128-151: the response arrives and is appended to the history; the
\* code is written to video.py (writeOk) and render_scene starts the
\* renderer, or the write fails
LLMRespond(s) ==
    /\ TasksRun
    /\ manimPc[s] = "awaitLLM"
    /\ \E text \in llmTexts :
          LET output == StripFence(text) IN
          /\ response' = [response EXCEPT ![s] = text]
          /\ messages' = AppendMessage(messages, s, <<"assistant", output>>)
          /\ \E writeOk \in BOOLEAN :
                IF writeOk
                THEN /\ codeFile' = [codeFile EXCEPT ![s] = requests[s]]
                     /\ codeText' = [codeText EXCEPT ![s] = WrittenText(@, output)]
                     /\ renders' = [renders EXCEPT ![s] = @ + 1]
                     /\ procStarts' = [procStarts EXCEPT ![s] = @ + 1]
                     /\ manimPc' = [manimPc EXCEPT ![s] = "rendering"]
                     /\ UNCHANGED <<iteration, requests, manimResult,
                                    outOfOrder, writeFailed>>
                ELSE WriteFails(s)
    /\ UNCHANGED <<orchVars, lastRender, procResult, render_output,
                   renderedDur, videoFile, speechVars, reconVars, finalVars>>
    /\ UNCHANGED <<givenVars, envVars>>

\* lines 68-86 and 151-163: the renderer ends and render_scene returns
RenderFinish(s) ==
    /\ orchPc = "gather"
    /\ manimPc[s] = "rendering"
    /\ \E proc \in RenderOutcomes :
          LET out == render_scene(proc) IN
          /\ procResult' = [procResult EXCEPT ![s] = proc]
          /\ render_output' = [render_output EXCEPT ![s] = out]
          /\ lastRender' = [lastRender EXCEPT ![s] = out[1]]
          /\ IF RenderAccepted(out)
             THEN /\ manimPc' = [manimPc EXCEPT ![s] = "done"]
                  /\ manimResult' = [manimResult EXCEPT ![s] = "scene_id"]
                  /\ outOfOrder' = (outOfOrder \/ EndsOutOfOrder(s))
                  /\ UNCHANGED <<iteration, requests, messages>>
             ELSE /\ messages' = AppendMessage(messages, s,
                                               <<"user", <<"Error: ", out[2]>>>>)
                  /\ LoopHead(s, iteration[s] + 1)
          /\ IF proc.kind = "ok"
             THEN \E d \in SceneDurations :
                    /\ videoFile' = [videoFile EXCEPT ![s] = [video |-> d, audio |-> 0]]
                    /\ renderedDur' = [renderedDur EXCEPT ![s] = d]
             ELSE UNCHANGED <<videoFile, renderedDur>>
    /\ UNCHANGED <<orchVars, renders, procStarts, codeFile, codeText, response,
                   writeFailed, speechVars, reconVars, finalVars>>
    /\ UNCHANGED <<givenVars, envVars>>

\* -------------------------------------------------------- generate_speech
\* lines 96-105: the audio arrives and is written to audio.wav, or the
\* request or the write raises and the exception leaves generate_speech
SpeechFinish(s) ==
    /\ TasksRun
    /\ speechPc[s] = "awaitSynth"
    /\ \/ \E d \in SpeechDurations :
             /\ audioFile' = [audioFile EXCEPT ![s] = d]
             /\ speechPc' = [speechPc EXCEPT ![s] = "done"]
             /\ speechResult' = [speechResult EXCEPT ![s] = "scene_id"]
       \/ /\ speechPc' = [speechPc EXCEPT ![s] = "raised"]
          /\ speechResult' = [speechResult EXCEPT ![s] = "raised"]
          /\ UNCHANGED audioFile
    /\ UNCHANGED <<orchVars, manimVars, videoFile, reconVars, finalVars>>
    /\ UNCHANGED <<givenVars, envVars>>

\* ---------------------------------------------- combine_manim_and_speech
\* lines 189-191: CompositeAudioClip of the audio and of a silence of
\* v - a seconds that starts at a; its duration is the largest clip end
PaddedAudio(v, a) == Max(a, FAdd(a, FSub(v, a)))

\* lines 196-199: the video with the held frame, set_duration(audio_duration)
ExtendedVideo(v, a) == a

\* faulty variant: the tracks are not trimmed
SubclipUntrimmed(d, t_start, t_end) == d

\* lines 203-204: clip.subclip(t_start, t_end) of a clip of duration d
Subclip(d, t_start, t_end) == FSub(t_end, t_start)

\* lines 182-207: the durations of the tracks of final_clip
Reconcile(v, a) ==
    LET audio == IF a < v THEN PaddedAudio(v, a) ELSE a
        video == IF a < v THEN v ELSE IF a > v THEN ExtendedVideo(v, a) ELSE v
        final_duration == Min(video, audio)
    IN  [video |-> Subclip(video, 0, final_duration),
         audio |-> Subclip(audio, 0, final_duration)]

\* ---------------------------------------------------- generate_all_scenes
\* faulty variant: only the generate_manim tasks are awaited
AllManimDone ==
    \A s \in Scenes : manimPc[s] = "done"

\* line 261: gather returns when every task has returned
AllTasksDone ==
    \A s \in Scenes : manimPc[s] = "done" /\ speechPc[s] = "done"

\* line 261: gather raises the first exception of a task
SomeTaskRaised ==
    \E s \in Scenes : manimPc[s] = "raised" \/ speechPc[s] = "raised"

\* line 266: if manim_result is None or speech_result is None
SceneSkipped(manim_result, speech_result) ==
    manim_result = "None" \/ speech_result = "None"

\* lines 254-261, 115-127 and 95-96: both tasks of every scene are created
\* and gather is awaited; the event loop then runs every task, in creation
\* order, up to its first await: each generate_manim sends its first
\* request, each generate_speech its synthesis request
CreateTasks ==
    /\ orchPc = "init"
    /\ orchPc' = "gather"
    /\ iteration' = [s \in Scenes |-> 0]
    /\ manimPc' = [s \in Scenes |-> IF LoopContinues(0) THEN "awaitLLM" ELSE "done"]
    /\ requests' = [s \in Scenes |-> IF LoopContinues(0) THEN 1 ELSE 0]
    /\ manimResult' = [s \in Scenes |-> IF LoopContinues(0) THEN "pending" ELSE "None"]
    /\ messages' = [s \in Scenes |-> InitialMessages(s)]
    /\ speechPc' = [s \in Scenes |-> "awaitSynth"]
    /\ UNCHANGED <<reconIdx, returnValue, renders, lastRender, speechResult,
                   outOfOrder, codeFile, videoFile, audioFile, renderedDur,
                   reconVars, finalVars, codeText, response, procStarts,
                   procResult, render_output, writeFailed>>
    /\ UNCHANGED <<givenVars, envVars>>

GatherReturn ==
    /\ orchPc = "gather"
    /\ LoopFree
    /\ AllTasksDone
    /\ orchPc' = "reconcile"
    /\ reconIdx' = 1
    /\ UNCHANGED <<returnValue, manimVars, videoFile, speechVars, reconVars,
                   finalVars>>
    /\ UNCHANGED <<givenVars, envVars>>

GatherRaise ==
    /\ orchPc = "gather"
    /\ LoopFree
    /\ SomeTaskRaised
    /\ orchPc' = "raised"
    /\ UNCHANGED <<reconIdx, returnValue, manimVars, videoFile, speechVars,
                   reconVars, finalVars>>
    /\ UNCHANGED <<givenVars, envVars>>

\* faulty variant: the results are paired with the scenes in another order
GatherResultsReversed ==
    [i \in 1..NumScenes |-> <<manimResult[SceneKeys[NumScenes + 1 - i]],
                              speechResult[SceneKeys[NumScenes + 1 - i]]>>]

\* line 261: results; gather returns the pairs (manim_result,
\* speech_result) in the order in which the task pairs were created
GatherResults ==
    [i \in 1..NumScenes |-> <<manimResult[SceneKeys[i]], speechResult[SceneKeys[i]]>>]

\* lines 265-269: one turn of the for loop, with combine_manim_and_speech
\* (lines 175-221) when the scene is not skipped.  fail is the step of
\* combine_manim_and_speech that raises: opening a clip whose file is
\* absent, os.remove, write_videofile, or none
ReconcileStep ==
    /\ orchPc = "reconcile"
    /\ reconIdx <= NumScenes
    /\ LET s == SceneKeys[reconIdx] IN
         IF SceneSkipped(GatherResults[reconIdx][1], GatherResults[reconIdx][2])
         THEN /\ reconStatus' = [reconStatus EXCEPT ![s] = "skipped"]
              /\ reconIdx' = reconIdx + 1
              /\ UNCHANGED <<orchPc, videoFile, openClips>>
         ELSE IF videoFile[s].video = 0 \/ audioFile[s] = 0
         THEN /\ reconStatus' = [reconStatus EXCEPT ![s] = "failed"]
              /\ orchPc' = "raised"
              /\ UNCHANGED <<reconIdx, videoFile, openClips>>
         ELSE \E fail \in {"none", "remove", "write"} :
              IF fail = "none"
              THEN /\ videoFile' = [videoFile EXCEPT ![s] =
                                       Reconcile(videoFile[s].video, audioFile[s])]
                   /\ reconStatus' = [reconStatus EXCEPT ![s] = "muxed"]
                   /\ openClips' = [openClips EXCEPT ![s] = {}]
                   /\ reconIdx' = reconIdx + 1
                   /\ UNCHANGED orchPc
              ELSE /\ videoFile' = [videoFile EXCEPT ![s] =
                                       IF fail = "remove" THEN @ ELSE NoFile]
                   /\ reconStatus' = [reconStatus EXCEPT ![s] = "failed"]
                   /\ openClips' = [openClips EXCEPT ![s] =
                                       {"video", "audio", "final_clip"}]
                   /\ orchPc' = "raised"
                   /\ UNCHANGED reconIdx
    /\ UNCHANGED <<returnValue, manimVars, speechVars, finalVars>>
    /\ UNCHANGED <<givenVars, envVars>>

\* --------------------------------------------------- combine_video_scenes
\* line 232: os.path.exists(scene_path)
ClipPresent(file) == file.video > 0

\* lines 227-236: the scenes whose clip is loaded, in iteration order
LoadedClips ==
    LET Present(s) == ClipPresent(videoFile[s])
    IN  SelectSeq(SceneKeys, Present)

\* faulty variant: one missing clip makes the assembly give up
NoClipsOrSomeMissing(video_clips) == Len(video_clips) < NumScenes

\* faulty variant: the empty list of clips is not tested
NoClipsNever(video_clips) == FALSE

\* line 238: if not video_clips
NoClips(video_clips) == video_clips = <<>>

\* lines 271-272: combine_video_scenes (lines 227-247), then return video_id
Assemble ==
    /\ orchPc = "reconcile"
    /\ reconIdx = NumScenes + 1
    /\ IF NoClips(LoadedClips)
       THEN /\ assembleResult' = "None"
            /\ UNCHANGED <<finalVideo, finalFile>>
       ELSE /\ finalVideo' = LoadedClips
            /\ finalFile' = TRUE
            /\ assembleResult' = "path"
    /\ orchPc' = "returned"
    /\ returnValue' = "video_id"
    /\ UNCHANGED <<reconIdx, manimVars, videoFile, speechVars, reconVars>>
    /\ UNCHANGED <<givenVars, envVars>>

Next ==
    \/ CreateTasks
    \/ \E s \in Scenes : LLMError(s)
    \/ \E s \in Scenes : LLMRespond(s)
    \/ \E s \in Scenes : RenderFinish(s)
    \/ \E s \in Scenes : SpeechFinish(s)
    \/ GatherReturn
    \/ GatherRaise
    \/ ReconcileStep
    \/ Assemble

Spec == Init /\ [][Next]_vars

\* ------------------------------------------- histories of ended tasks
\* the response and the renderer failure of a full run
RunText == CHOOSE text \in RunTexts : TRUE
RunFailure == CHOOSE proc \in RunFailures : TRUE

RECURSIVE HistoryAfter(_, _)
\* messages of the generate_manim of s after n failed attempts
HistoryAfter(s, n) ==
    IF n = 0 THEN InitialMessages(s)
    ELSE HistoryAfter(s, n - 1) \o
            << <<"assistant", StripFence(RunText)>>,
               <<"user", <<"Error: ", render_scene(RunFailure)[2]>>>> >>

\* messages of the generate_manim of s that succeeded at its first attempt
HistoryOfSuccess(s) ==
    Append(InitialMessages(s), <<"assistant", StripFence(RunText)>>)

\* ------------------------------------------------ reconciliation alone
\* the state at the return of gather of a run in which the first scene was
\* rendered at the first attempt with any durations of clip and audio, and
\* every other scene exhausted its attempts
InitRecon ==
    /\ RunGiven
    /\ llmTexts = RunTexts
    /\ renderFailures = RunFailures
    /\ writeFailures = RunWriteFailures
    /\ orchPc = "reconcile"
    /\ reconIdx = 1
    /\ returnValue = "none"
    /\ manimPc = [s \in Scenes |-> "done"]
    /\ iteration = [s \in Scenes |-> IF s = 1 THEN 0 ELSE MAX_ITERATIONS]
    /\ requests = [s \in Scenes |-> IF s = 1 THEN 1 ELSE MAX_ITERATIONS]
    /\ renders = requests
    /\ lastRender = [s \in Scenes |-> IF s = 1 THEN "True" ELSE "False"]
    /\ manimResult = [s \in Scenes |-> IF s = 1 THEN "scene_id" ELSE "None"]
    /\ speechPc = [s \in Scenes |-> "done"]
    /\ speechResult = [s \in Scenes |-> "scene_id"]
    /\ outOfOrder = FALSE
    /\ codeFile = requests
    /\ codeText = [s \in Scenes |-> StripFence(RunText)]
    /\ messages = [s \in Scenes |-> IF s = 1 THEN HistoryOfSuccess(s)
                                              ELSE HistoryAfter(s, MAX_ITERATIONS)]
    /\ response = [s \in Scenes |-> RunText]
    /\ procStarts = requests
    /\ procResult = [s \in Scenes |-> IF s = 1 THEN RenderOk ELSE RunFailure]
    /\ render_output = [s \in Scenes |-> render_scene(procResult[s])]
    /\ writeFailed = [s \in Scenes |-> FALSE]
    /\ \E v \in Durations :
          /\ videoFile = [s \in Scenes |-> IF s = 1 THEN [video |-> v, audio |-> 0]
                                                   ELSE NoFile]
          /\ renderedDur = [s \in Scenes |-> IF s = 1 THEN v ELSE 0]
    /\ audioFile \in [Scenes -> Durations]
    /\ \A s \in Scenes : s > 1 => audioFile[s] = 1
    /\ reconStatus = [s \in Scenes |-> "pending"]
    /\ openClips = [s \in Scenes |-> {}]
    /\ finalVideo = <<>>
    /\ finalFile = FALSE
    /\ assembleResult = "pending"

NextRecon ==
    \/ ReconcileStep
    \/ Assemble

SpecRecon == InitRecon /\ [][NextRecon]_vars

\* -------------------------------------------------------- __init__ alone
\* before __init__, for every list of at most MaxTranscriptions texts
InitCtor ==
    /\ transcriptions \in UNION {[1..n -> Texts] : n \in 0..MaxTranscriptions}
    /\ scene_transcriptions = <<>>
    /\ video_id = 0
    /\ llmTexts = RunTexts
    /\ renderFailures = RunFailures
    /\ writeFailures = RunWriteFailures
    /\ TasksIdle

NextCtor == Construct

SpecCtor == InitCtor /\ [][NextCtor]_vars

\* ------------------------------------------------ one generation alone
\* the state of a run in which the tasks of every scene but the first have
\* ended, each at its first attempt, while the first scene still waits for
\* its first response and for its audio
InitSceneWith(texts, failures, writes) ==
    /\ RunGiven
    /\ llmTexts = texts
    /\ renderFailures = failures
    /\ writeFailures = writes
    /\ orchPc = "gather"
    /\ reconIdx = 1
    /\ returnValue = "none"
    /\ manimPc = [s \in Scenes |-> IF s = 1 THEN "awaitLLM" ELSE "done"]
    /\ iteration = [s \in Scenes |-> 0]
    /\ requests = [s \in Scenes |-> 1]
    /\ renders = [s \in Scenes |-> IF s = 1 THEN 0 ELSE 1]
    /\ lastRender = [s \in Scenes |-> IF s = 1 THEN "none" ELSE "True"]
    /\ manimResult = [s \in Scenes |-> IF s = 1 THEN "pending" ELSE "scene_id"]
    /\ speechPc = [s \in Scenes |-> IF s = 1 THEN "awaitSynth" ELSE "done"]
    /\ speechResult = [s \in Scenes |-> IF s = 1 THEN "pending" ELSE "scene_id"]
    /\ outOfOrder = (NumScenes > 1)
    /\ codeFile = renders
    /\ codeText = [s \in Scenes |-> IF s = 1 THEN <<>> ELSE StripFence(RunText)]
    /\ messages = [s \in Scenes |-> IF s = 1 THEN InitialMessages(s)
                                              ELSE HistoryOfSuccess(s)]
    /\ response = [s \in Scenes |-> IF s = 1 THEN <<>> ELSE RunText]
    /\ procStarts = renders
    /\ procResult = [s \in Scenes |-> RenderOk]
    /\ render_output = [s \in Scenes |-> IF s = 1 THEN NoOutput
                                                   ELSE render_scene(RenderOk)]
    /\ writeFailed = [s \in Scenes |-> FALSE]
    /\ videoFile = [s \in Scenes |-> IF s = 1 THEN NoFile
                                               ELSE [video |-> 1, audio |-> 0]]
    /\ renderedDur = [s \in Scenes |-> IF s = 1 THEN 0 ELSE 1]
    /\ audioFile = [s \in Scenes |-> IF s = 1 THEN 0 ELSE 1]
    /\ reconStatus = [s \in Scenes |-> "pending"]
    /\ openClips = [s \in Scenes |-> {}]
    /\ finalVideo = <<>>
    /\ finalFile = FALSE
    /\ assembleResult = "pending"

\* with every response, renderer failure and write failure of the
\* environment
InitScene == InitSceneWith(LLMTexts, RenderFailureKinds, WriteFailureKinds)

NextScene ==
    \/ \E s \in Scenes : LLMError(s)
    \/ \E s \in Scenes : LLMRespond(s)
    \/ \E s \in Scenes : RenderFinish(s)
    \/ \E s \in Scenes : SpeechFinish(s)
    \/ GatherReturn
    \/ GatherRaise
    \/ ReconcileStep
    \/ Assemble

SpecScene == InitScene /\ [][NextScene]_vars

\* the same with the environment of a full run, under the assumption that
\* the event loop runs a task that can run, that every external call comes
\* back and that the renderer ends
InitLoop == InitSceneWith(RunTexts, RunFailures, RunWriteFailures)

SpecLoop == InitLoop /\ [][NextScene]_vars /\ WF_vars(NextScene)

\* ------------------------------------------------------------ properties
Range(seq) == {seq[i] : i \in 1..Len(seq)}

BothSucceeded(s) == manimResult[s] = "scene_id" /\ speechResult[s] = "scene_id"

UnitFailed(s) ==
    \/ manimResult[s] \in {"None", "raised"}
    \/ speechResult[s] = "raised"

RunOver == orchPc \in {"returned", "raised"}

NoReconcileFailed == \A s \in Scenes : reconStatus[s] # "failed"

\* C1: one run of generate_manim issues at most MAX_ITERATIONS
\* language-model requests, whatever the render outcomes are
C1_AtMostMaxRequests ==
    \A s \in Scenes : requests[s] <= MAX_ITERATIONS

\* a scene gave up after exactly MAX_ITERATIONS requests
C1_Witness ==
    \E s \in Scenes :
        /\ manimPc[s] = "done" /\ manimResult[s] = "None"
        /\ iteration[s] = MAX_ITERATIONS /\ requests[s] = MAX_ITERATIONS

\* C2: when render_scene reports success on attempt k after k-1 failures,
\* generate_manim has ended with the scene id after exactly k requests and
\* k renders, and makes no request and no render afterwards
C2_StopsAtSuccess ==
    /\ [](\A s \in Scenes : lastRender[s] = "True" =>
              /\ manimPc[s] = "done" /\ manimResult[s] = "scene_id"
              /\ requests[s] = iteration[s] + 1
              /\ renders[s] = iteration[s] + 1
              /\ requests[s] <= MAX_ITERATIONS)
    /\ [][\A s \in Scenes : manimResult[s] = "scene_id" =>
              /\ requests'[s] = requests[s]
              /\ renders'[s] = renders[s]
              /\ manimResult'[s] = "scene_id"]_vars

\* a scene succeeded at its third attempt and the run went on after it
C2_Witness ==
    \E s \in Scenes :
        /\ lastRender[s] = "True" /\ iteration[s] = 2 /\ requests[s] = 3
        /\ orchPc = "returned"

\* C3: a failure inside one scene never aborts the other scenes: once the
\* run is over, every scene whose generation and synthesis succeeded has
\* been reconciled and is in the final video
C3_FailureIsolated ==
    (RunOver /\ NoReconcileFailed) =>
        \A s \in Scenes :
            (BothSucceeded(s) /\ \E t \in Scenes \ {s} : UnitFailed(t)) =>
                (reconStatus[s] = "muxed" /\ s \in Range(finalVideo))

\* C4: generate_all_scenes always ends by returning the video id, it is
\* never left by an exception
C4_AlwaysReturnsVideoId ==
    /\ orchPc # "raised"
    /\ orchPc = "returned" => returnValue = "video_id"

\* C5: the final video is made of exactly the scenes whose rendering and
\* synthesis both succeeded, and it is produced as soon as there is one
C5_FinalVideoOfSuccessfulScenes ==
    (RunOver /\ NoReconcileFailed) =>
        /\ \A s \in Range(finalVideo) : BothSucceeded(s)
        /\ (\E s \in Scenes : BothSucceeded(s)) =>
              (finalFile /\ Range(finalVideo) = {s \in Scenes : BothSucceeded(s)})

\* C6: the clips of the final video are in the order of the input
\* transcriptions, whatever the order in which the tasks completed
C6_InputOrder ==
    \A i, j \in 1..Len(finalVideo) : i < j => finalVideo[i] < finalVideo[j]

\* a final video of two clips or more after tasks that ended out of order
C6_Witness ==
    /\ Len(finalVideo) >= 2
    /\ outOfOrder

\* C7: after combine_video_scenes, the final video holds exactly the scenes
\* whose clip file exists, and the path is returned when there is one
C7_MissingClipOmitted ==
    assembleResult # "pending" =>
        /\ Range(finalVideo) = {s \in Scenes : videoFile[s].video > 0}
        /\ (\E s \in Scenes : videoFile[s].video > 0) =>
              (assembleResult = "path" /\ finalFile)

\* a final video assembled while the clip of some scene was absent
C7_Witness ==
    /\ assembleResult = "path"
    /\ \E s \in Scenes : videoFile[s].video = 0
    /\ \E s \in Scenes : videoFile[s].video > 0

\* C8: when no clip file exists at assembly, combine_video_scenes returns
\* None and writes no final video
C8_NoClipNoFinalVideo ==
    (assembleResult # "pending" /\ \A s \in Scenes : videoFile[s].video = 0) =>
        (assembleResult = "None" /\ ~finalFile /\ finalVideo = <<>>)

\* combine_video_scenes ran with no clip at all
C8_Witness ==
    /\ orchPc = "returned"
    /\ assembleResult = "None"
    /\ \A s \in Scenes : videoFile[s].video = 0

\* C9 as claimed: both tracks of a muxed clip last max(videoDuration,
\* audioDuration)
C9_DurationIsMax ==
    \A s \in Scenes : reconStatus[s] = "muxed" =>
        /\ videoFile[s].video = Max(renderedDur[s], audioFile[s])
        /\ videoFile[s].audio = Max(renderedDur[s], audioFile[s])

\* C9 amended: both tracks of a muxed clip have the same duration, never
\* more than max(videoDuration, audioDuration), and exactly that when the
\* audio is not shorter than the video or when the floating point sum
\* audioDuration + (videoDuration - audioDuration) is not below videoDuration
C9_EqualDurations ==
    \A s \in Scenes : reconStatus[s] = "muxed" =>
        LET v == renderedDur[s]
            a == audioFile[s]
        IN  /\ videoFile[s].video = videoFile[s].audio
            /\ videoFile[s].video <= Max(v, a)
            /\ videoFile[s].video > 0
            /\ (a >= v \/ RoundF(a + RoundF(v - a)) >= v) =>
                  videoFile[s].video = Max(v, a)

\* a clip muxed after the padded audio came out shorter than the video
C9_Witness ==
    \E s \in Scenes :
        /\ reconStatus[s] = "muxed"
        /\ audioFile[s] < renderedDur[s]
        /\ videoFile[s].video < renderedDur[s]
        /\ videoFile[s].audio = videoFile[s].video

\* C10: a scene is reconciled or skipped only after both of its tasks have
\* ended, and combine_video_scenes runs only after every scene has been
\* skipped or reconciled
C10_ReconcileAfterTasks ==
    /\ \A s \in Scenes : reconStatus[s] # "pending" =>
          /\ manimPc[s] \in {"done", "raised"}
          /\ speechPc[s] \in {"done", "raised"}
    /\ assembleResult # "pending" =>
          \A s \in Scenes : reconStatus[s] \in {"skipped", "muxed"}

\* the final assembly ran after one scene was muxed and another skipped
C10_Witness ==
    /\ assembleResult # "pending"
    /\ \E s \in Scenes : reconStatus[s] = "muxed"
    /\ \E s \in Scenes : reconStatus[s] = "skipped"

\* C11: once the tasks of every scene have ended, generate_all_scenes does
\* not end without having called combine_video_scenes, whatever happened
\* in the reconciliation of the scenes
C11_AssemblyReached ==
    (RunOver /\ \A s \in Scenes : manimPc[s] = "done" /\ speechPc[s] = "done") =>
        assembleResult # "pending"

\* C12: when combine_manim_and_speech has ended for a scene, by returning
\* or by raising, none of the clips it opened is left open
C12_ClipsReleased ==
    \A s \in Scenes : reconStatus[s] \in {"muxed", "failed"} => openClips[s] = {}

\* the paths a scene writes to
ScenePaths(scene_id) ==
    {CodePath(scene_id, video_id), get_audio_path(scene_id, video_id),
     get_scene_path(scene_id, video_id)}

\* C13: after __init__ there is one scene per supplied transcription, in
\* the order supplied, the scene ids are pairwise distinct, and no two
\* scenes share a working directory or a code, audio or video path
C13_OneSceneEach ==
    video_id # 0 =>
        /\ Len(scene_transcriptions) = Len(transcriptions)
        /\ \A i \in 1..Len(scene_transcriptions) :
              /\ i <= Len(transcriptions)
              /\ scene_transcriptions[i][2] = transcriptions[i]
        /\ \A i, j \in 1..Len(scene_transcriptions) : i # j =>
              /\ scene_transcriptions[i][1] # scene_transcriptions[j][1]
              /\ SceneDir(scene_transcriptions[i][1], video_id)
                    # SceneDir(scene_transcriptions[j][1], video_id)
              /\ ScenePaths(scene_transcriptions[i][1])
                    \cap ScenePaths(scene_transcriptions[j][1]) = {}

\* __init__ was given the same text twice
C13_Witness ==
    /\ video_id # 0
    /\ \E i, j \in 1..Len(transcriptions) :
          i # j /\ transcriptions[i] = transcriptions[j]
    /\ Len(scene_transcriptions) = Len(transcriptions)

\* C14: when every external call comes back, every generate_manim ends (or
\* is cancelled with the run); when its counter has reached MAX_ITERATIONS
\* it has returned None, not raised, after MAX_ITERATIONS requests and
\* renders, and it sends no request afterwards
C14_LoopTerminates ==
    /\ <>(\A s \in Scenes : manimPc[s] \in {"done", "raised"} \/ orchPc = "raised")
    /\ [](\A s \in Scenes : iteration[s] >= MAX_ITERATIONS =>
              /\ manimPc[s] = "done" /\ manimResult[s] = "None"
              /\ iteration[s] = MAX_ITERATIONS
              /\ requests[s] = MAX_ITERATIONS /\ renders[s] = MAX_ITERATIONS)
    /\ [][\A s \in Scenes : iteration[s] >= MAX_ITERATIONS =>
              /\ manimPc'[s] = manimPc[s]
              /\ manimResult'[s] = manimResult[s]
              /\ requests'[s] = requests[s]]_vars

\* a scene was exhausted by MAX_ITERATIONS failed renders in a row and the
\* run went on to its end
C14_Witness ==
    /\ orchPc = "returned"
    /\ \E s \in Scenes :
          /\ iteration[s] = MAX_ITERATIONS /\ manimResult[s] = "None"
          /\ lastRender[s] = "False" /\ renders[s] = MAX_ITERATIONS

\* the response of the current attempt of s is in its history
ResponseRecorded(s) ==
    manimPc[s] = "rendering" \/ manimResult[s] = "scene_id" \/ writeFailed[s]

\* C15: the history of a scene starts with the system prompt and the
\* transcription of that scene; every failed attempt adds the assistant
\* code and the user diagnostic, so that the k-th request is sent
\* 2 + 2(k-1) entries; the history changes only by the scene's own task
\* appending one entry, the entries before it stay as they were
C15_HistoryAppendOnly ==
    /\ [](\A s \in Scenes : manimPc[s] # "idle" =>
              /\ SubSeq(messages[s], 1, 2) = InitialMessages(s)
              /\ Len(messages[s]) = 2 + 2 * iteration[s]
                                      + (IF ResponseRecorded(s) THEN 1 ELSE 0)
              /\ manimPc[s] = "awaitLLM" =>
                    Len(messages[s]) = 2 + 2 * (requests[s] - 1)
              /\ \A i \in 3..Len(messages[s]) :
                    messages[s][i][1] = IF i % 2 = 1 THEN "assistant" ELSE "user")
    /\ [][\A s \in Scenes :
              \/ messages'[s] = messages[s]
              \/ messages[s] = <<>> /\ messages'[s] = InitialMessages(s)
              \/ LET n == Len(messages[s])
                     m == messages'[s][n + 1]
                 IN  /\ Len(messages'[s]) = n + 1
                     /\ SubSeq(messages'[s], 1, n) = messages[s]
                     /\ manimPc'[s] # manimPc[s]
                     /\ \/ /\ manimPc[s] = "awaitLLM"
                           /\ m[1] = "assistant"
                           /\ m[2] = StripFence(response'[s])
                        \/ /\ manimPc[s] = "rendering"
                           /\ m[1] = "user"
                           /\ m[2] = <<"Error: ", render_output'[s][2]>>]_vars

\* a scene sends its third request with 6 entries while another scene has
\* a history of 4 entries
C15_Witness ==
    \E s, t \in Scenes :
        /\ s # t
        /\ manimPc[s] = "awaitLLM" /\ requests[s] = 3 /\ Len(messages[s]) = 6
        /\ Len(messages[t]) = 4

\* C16: when the write of video.py fails, generate_manim has returned None
\* at once: the renderer was not started for that response, the counter of
\* attempts was not advanced, and no request and no render follows
C16_WriteFailureEnds ==
    /\ [](\A s \in Scenes : writeFailed[s] =>
              /\ manimPc[s] = "done" /\ manimResult[s] = "None"
              /\ renders[s] = requests[s] - 1
              /\ procStarts[s] = requests[s] - 1
              /\ iteration[s] = requests[s] - 1
              /\ codeFile[s] < requests[s])
    /\ [][\A s \in Scenes : writeFailed[s] =>
              /\ requests'[s] = requests[s]
              /\ renders'[s] = renders[s]
              /\ procStarts'[s] = procStarts[s]
              /\ iteration'[s] = iteration[s]
              /\ manimResult'[s] = "None"]_vars

\* the write failed at the third attempt of a scene and the run went on to
\* its end
C16_Witness ==
    /\ orchPc = "returned"
    /\ \E s \in Scenes :
          writeFailed[s] /\ requests[s] = 3 /\ reconStatus[s] = "skipped"

\* C17: while render_scene runs for a scene, video.py of that scene holds
\* the code of the latest response (the response without its code-fence
\* marks, which is also the latest assistant entry of the history) and was
\* written for the latest request; after MAX_ITERATIONS failed renders the
\* code of the last attempt is what video.py holds
C17_FileHoldsLatest ==
    \A s \in Scenes :
        /\ manimPc[s] = "rendering" =>
              /\ codeText[s] = StripFence(response[s])
              /\ codeFile[s] = requests[s]
              /\ messages[s][Len(messages[s])] = <<"assistant", codeText[s]>>
        /\ (iteration[s] = MAX_ITERATIONS /\ manimResult[s] = "None") =>
              /\ codeText[s] = StripFence(response[s])
              /\ codeFile[s] = MAX_ITERATIONS

\* the renderer runs on the second attempt of a scene, whose fenced
\* response carries another code than the first attempt did
C17_Witness ==
    \E s \in Scenes :
        /\ manimPc[s] = "rendering" /\ requests[s] = 2
        /\ response[s] # codeText[s]
        /\ messages[s][3][2] # codeText[s]

\* a text without leading or trailing whitespace
Trimmed(text) ==
    text = <<>> \/ (Head(text) \notin Whitespace /\ text[Len(text)] \notin Whitespace)

\* render_scene returned out for a renderer process that ended as proc
ReturnedFor(proc, out) ==
    CASE proc.kind = "ok" -> out = <<"True", <<>>>>
      [] proc.kind = "exit" ->
            /\ out[1] = "False"
            /\ out[2][1] = "Command failed with exit code "
            /\ out[2][2] = proc.returncode
            /\ out[2][4] = StripChars(proc.stderr, Whitespace)
            /\ Trimmed(out[2][4])
      [] OTHER -> out = <<"False", proc.text>>

C19_RenderDoesNotStall ==
    \A s, t \in Scenes :
        (s # t /\ orchPc = "gather" /\ manimPc[s] = "rendering") =>
            /\ manimPc[t] = "awaitLLM" => ENABLED LLMRespond(t)
            /\ speechPc[t] = "awaitSynth" => ENABLED SpeechFinish(t)

\* C20: a scene is skipped or reconciled only when the tasks of all the
\* scenes have ended; the scenes are taken in input order, a scene only
\* after every scene before it has been skipped or reconciled; a scene is
\* skipped exactly when one of its own two results is None and reconciled
\* only when both of its own tasks returned its id
C20_BarrierThenInOrder ==
    \A s \in Scenes :
        reconStatus[s] # "pending" =>
            /\ \A t \in Scenes : manimPc[t] = "done" /\ speechPc[t] = "done"
            /\ orchPc # "gather"
            /\ \A t \in Scenes : t < s => reconStatus[t] \in {"skipped", "muxed"}
            /\ s <= reconIdx
            /\ (reconStatus[s] = "skipped") =
                  (manimResult[s] = "None" \/ speechResult[s] = "None")
            /\ reconStatus[s] \in {"muxed", "failed"} => BothSucceeded(s)

\* tasks ended out of input order, then an earlier scene was skipped and a
\* later one reconciled
C20_Witness ==
    /\ outOfOrder
    /\ \E s, t \in Scenes :
          s < t /\ reconStatus[s] = "skipped" /\ reconStatus[t] = "muxed"

====
